---- MODULE Spec2Model ----
(***************************************************************************)
(* Model of backend/services/colors.py: RGB/hex conversion, the neutrality *)
(* heuristic, the palette classifier and the palette merger.               *)
(*                                                                         *)
(* A Python str is a sequence of one-character strings; a Python list is a *)
(* sequence; a call's outcome is a record [status, value] whose status is  *)
(* "not_called", "returned" or the name of the exception raised.           *)
(***************************************************************************)
EXTENDS Integers, Sequences, FiniteSets, TLC

VARIABLES rgb, hex_out, hex_color, rgb_out, neutral,
          colors_rgb, palette,
          palette1, palette2, merged, hashseed,
          luminances, image_source, extraction, heap, calls,
          variant, merged_variant, analysis, response

vars == <<rgb, hex_out, hex_color, rgb_out, neutral,
          colors_rgb, palette,
          palette1, palette2, merged, hashseed,
          luminances, image_source, extraction, heap, calls,
          variant, merged_variant, analysis, response>>

convVars == <<rgb, hex_out, hex_color, rgb_out, neutral>>
classVars == <<colors_rgb, palette>>
mergeVars == <<palette1, palette2, merged, hashseed>>
extractVars == <<image_source, extraction>>
variantVars == <<variant, merged_variant>>
endpointVars == <<analysis, response>>
serviceVars == <<luminances, extractVars, heap, calls, variantVars, endpointVars>>

(***************************************************************************)
(* Bounds of the model.                                                    *)
(***************************************************************************)
\* Number of generated channel values added to the boundary values.
MaxExtraChannels == 4
\* Longest string handed to hex_to_rgb.
MaxHexLen == 7
\* Longest sample list handed to classify_colors.
MaxSamples == 4
\* Number of colours of SampleTable the sample lists draw from.
NumSampleColors == 8
\* Longest all_colors list of the first palette handed to merge_palettes.
MaxPaletteColors == 3
\* Longest neutrals list of a palette handed to merge_palettes.
MaxPaletteNeutrals == 3
\* calls of calculate_luminance in a run
MaxLuminanceCalls == 2
\* calls of classify_colors and merge_palettes in progress together
MaxCalls == 2

(***************************************************************************)
(* Program constants.                                                      *)
(***************************************************************************)
NeutralThreshold == 30
MaxClassifiedNeutrals == 3
MaxMergedNeutrals == 4
MaxMergedColors == 12

(***************************************************************************)
(* Outcomes of calls.                                                      *)
(***************************************************************************)
NotCalled == [status |-> "not_called", value |-> <<>>]
Returned(v) == [status |-> "returned", value |-> v]
Raised(e) == [status |-> e, value |-> <<>>]

Min2(a, b) == IF a <= b THEN a ELSE b
Max2(a, b) == IF a >= b THEN a ELSE b

\* Python slice s[lo:hi] for 0 <= lo <= hi (0-based, clamped to the length).
Slice(s, lo, hi) ==
    LET h == Min2(hi, Len(s))
    IN  IF lo >= h THEN <<>> ELSE [i \in 1..(h - lo) |-> s[lo + i]]

(***************************************************************************)
(* rgb_to_hex: f"#{r:02x}{g:02x}{b:02x}".upper()                           *)
(***************************************************************************)
LowerDigits == <<"0","1","2","3","4","5","6","7","8","9","a","b","c","d","e","f">>
UpperDigits == <<"0","1","2","3","4","5","6","7","8","9","A","B","C","D","E","F">>

\* Digits of n >= 0 in base 16, lowercase, no padding (format type 'x').
RECURSIVE FormatX(_)
FormatX(n) ==
    IF n < 16 THEN <<LowerDigits[n + 1]>>
    ELSE Append(FormatX(n \div 16), LowerDigits[(n % 16) + 1])

\* Format spec 'x' in place of '02x': no padding.
FormatUnpadded(n) == FormatX(n)

\* Format spec '02x': zero-padded to a minimum width of 2.
Format02x(n) ==
    LET d == FormatX(n) IN IF Len(d) < 2 THEN <<"0">> \o d ELSE d

\* str.upper() on one character.
UpperChar(ch) ==
    CASE ch = "a" -> "A"
      [] ch = "b" -> "B"
      [] ch = "c" -> "C"
      [] ch = "d" -> "D"
      [] ch = "e" -> "E"
      [] ch = "f" -> "F"
      [] ch = "x" -> "X"
      [] OTHER -> ch

\* The string left in the case the format produced.
UpperKeepCase(s) == s

Upper(s) == [i \in 1..Len(s) |-> UpperChar(s[i])]

rgb_to_hex(c) ==
    Upper(<<"#">> \o Format02x(c[1]) \o Format02x(c[2]) \o Format02x(c[3]))

(***************************************************************************)
(* hex_to_rgb: hex_color.lstrip("#"), then int(hex_color[i:i+2], 16) for   *)
(* i in (0, 2, 4).                                                         *)
(***************************************************************************)
IsHexDigit(ch) == \E i \in 1..16 : LowerDigits[i] = ch \/ UpperDigits[i] = ch

DigitVal(ch) ==
    (CHOOSE i \in 1..16 : LowerDigits[i] = ch \/ UpperDigits[i] = ch) - 1

\* str.lstrip("#"): drops every leading '#'.
RECURSIVE LStripHash(_)
LStripHash(s) ==
    IF s # <<>> /\ Head(s) = "#" THEN LStripHash(Tail(s)) ELSE s

\* The whitespace int() skips on both sides of a literal: the blank, tab,
\* line feed, carriage return and form feed, and, written as the characters
\* themselves, vertical tab (U+000B), next line (U+0085) and no-break space
\* (U+00A0).  int() skips the Unicode spaces beyond U+00FF as well, which a
\* string of this module cannot hold; U+001C to U+001F are not skipped.
Whitespace == {" ", "\t", "\n", "\r", "\f", "", "", " "}

\* The literal without the whitespace before it.
RECURSIVE LStripSpace(_)
LStripSpace(s) ==
    IF s # <<>> /\ Head(s) \in Whitespace THEN LStripSpace(Tail(s)) ELSE s

\* The literal without the whitespace after it.
RECURSIVE RStripSpace(_)
RStripSpace(s) ==
    IF s # <<>> /\ s[Len(s)] \in Whitespace
    THEN RStripSpace(SubSeq(s, 1, Len(s) - 1))
    ELSE s

\* The digit part of an int() literal: non-empty, hex digits, with single
\* underscores allowed only between two digits (or right after a 0x prefix).
DigitsOk(d, afterPrefix) ==
    /\ d # <<>>
    /\ \A i \in 1..Len(d) : IsHexDigit(d[i]) \/ d[i] = "_"
    /\ d[Len(d)] # "_"
    /\ (d[1] = "_" => afterPrefix)
    /\ \A i \in 1..(Len(d) - 1) : ~(d[i] = "_" /\ d[i + 1] = "_")

RECURSIVE DigitsVal(_)
DigitsVal(d) ==
    IF d = <<>> THEN 0
    ELSE LET init == SubSeq(d, 1, Len(d) - 1)
             last == d[Len(d)]
         IN  IF last = "_" THEN DigitsVal(init)
             ELSE 16 * DigitsVal(init) + DigitVal(last)

\* int(s, 16): whitespace skipped on both sides, optional sign, optional
\* 0x/0X prefix, digits.
PyInt16(s) ==
    LET t == RStripSpace(LStripSpace(s))
        signed == t # <<>> /\ t[1] \in {"+", "-"}
        u == IF signed THEN Tail(t) ELSE t
        prefixed == Len(u) >= 2 /\ u[1] = "0" /\ u[2] \in {"x", "X"}
        d == IF prefixed THEN SubSeq(u, 3, Len(u)) ELSE u
        v == DigitsVal(d)
    IN  IF DigitsOk(d, prefixed)
        THEN Returned(IF signed /\ t[1] = "-" THEN 0 - v ELSE v)
        ELSE Raised("ValueError")

hex_to_rgb(h) ==
    LET s == LStripHash(h)
        r == PyInt16(Slice(s, 0, 2))
        g == PyInt16(Slice(s, 2, 4))
        b == PyInt16(Slice(s, 4, 6))
    IN  IF r.status = "returned" /\ g.status = "returned" /\ b.status = "returned"
        THEN Returned(<<r.value, g.value, b.value>>)
        ELSE Raised("ValueError")

(***************************************************************************)
(* calculate_luminance and is_neutral.                                     *)
(***************************************************************************)
Max3(c) == Max2(c[1], Max2(c[2], c[3]))
Min3(c) == Min2(c[1], Min2(c[2], c[3]))

\* 0.2126*r/255 + 0.7152*g/255 + 0.0722*b/255, scaled by 10000 * 255 so that
\* it is an integer; the order of two luminances is the order of these.
\* The weight of green taken as 0.7252.
calculate_luminance_heavy_green(c) == 2126 * c[1] + 7252 * c[2] + 722 * c[3]

calculate_luminance(c) == 2126 * c[1] + 7152 * c[2] + 722 * c[3]

\* The threshold taken inclusive.
is_neutral_inclusive(c) == Max3(c) - Min3(c) <= NeutralThreshold

is_neutral(c) == Max3(c) - Min3(c) < NeutralThreshold

(***************************************************************************)
(* classify_colors.                                                        *)
(***************************************************************************)
\* The ColorPalette model (models/schemas.py).
ColorPalette(primary, secondary, accent, neutrals, all_colors) ==
    [primary |-> primary, secondary |-> secondary, accent |-> accent,
     neutrals |-> neutrals, all_colors |-> all_colors]

\* The nested function saturation(rgb) of classify_colors.
saturation(c) == Max3(c) - Min3(c)

\* The positions 1..n of a list in the order list.sort leaves them: position n
\* goes behind every earlier position whose key does not come after its own,
\* so positions of equal key keep their relative order, reversed or not.
RECURSIVE SortedPositions(_, _, _)
SortedPositions(keys, rev, n) ==
    IF n = 0 THEN <<>>
    ELSE LET prev == SortedPositions(keys, rev, n - 1)
             After(j) == IF rev THEN keys[j] < keys[n] ELSE keys[j] > keys[n]
             NotAfter(j) == ~After(j)
         IN  SelectSeq(prev, NotAfter) \o <<n>> \o SelectSeq(prev, After)

\* A sort that is not stable under reverse: ascending, then reversed, so that
\* elements of equal key change places.
StableSortReversedTies(s, keys, rev) ==
    LET n == Len(s)
        before(j, i) == IF rev THEN keys[j] > keys[i] ELSE keys[j] < keys[i]
        tie(j, i) == IF rev THEN j > i ELSE j < i
        rank(i) == 1 + Cardinality({j \in 1..n : before(j, i)
                                        \/ (keys[j] = keys[i] /\ tie(j, i))})
    IN  [p \in 1..n |-> s[CHOOSE i \in 1..n : rank(i) = p]]

\* list.sort(key=..., reverse=rev), keys[i] being the key of s[i]: stable,
\* elements of equal key keep their relative order also when reversed.
StableSort(s, keys, rev) ==
    LET order == SortedPositions(keys, rev, Len(s))
    IN  [p \in 1..Len(s) |-> s[order[p]]]

(***************************************************************************)
(* list(set(...)) of str, as merge_palettes builds it.  hash(str) is keyed *)
(* by a key the interpreter draws when the process starts, so the set made *)
(* of a list is iterated in an order that is fixed within the process and  *)
(* that is, over the processes, any order of its elements, whatever order  *)
(* another set of the process has.  A process is therefore described by    *)
(* the number of the order it gives to each list it makes a set of.        *)
(***************************************************************************)
\* The elements of xs without repetition, by first occurrence.
RECURSIVE Distinct(_)
Distinct(xs) ==
    IF xs = <<>> THEN <<>>
    ELSE LET d == Distinct(SubSeq(xs, 1, Len(xs) - 1))
             x == xs[Len(xs)]
         IN  IF \E i \in 1..Len(d) : d[i] = x THEN d ELSE Append(d, x)

RemoveAt(d, i) == SubSeq(d, 1, i - 1) \o SubSeq(d, i + 1, Len(d))

\* Order number k of the elements d: k % Len(d) tells which element comes
\* last (0: the last one of d, 1: the first one, 2: the second one, ...), and
\* k \div Len(d) is the order number of the elements before it.  The numbers
\* 0 .. Len(d)! - 1 give every order of d once.
RECURSIVE set_order(_, _)
set_order(d, k) ==
    IF Len(d) <= 1 THEN d
    ELSE LET n == Len(d)
             last == ((k + n - 1) % n) + 1
         IN  Append(set_order(RemoveAt(d, last), k \div n), d[last])

\* list(xs) in place of list(set(xs)): duplicates are kept.
list_set_keep_duplicates(xs, seed) == xs

\* list(set(xs)): the distinct elements of xs in the iteration order the
\* process seed gives to the set made of xs.
list_set(xs, seed) == set_order(Distinct(xs), seed[xs])

\* How many orders a set of n strings has.
RECURSIVE OrderCount(_)
OrderCount(n) == IF n <= 1 THEN 1 ELSE n * OrderCount(n - 1)

\* No process: the value of hashseed where no set is made.
NoProcess == <<>>

\* The processes that make sets of the lists: a process gives the set made of
\* each list one of the orders of its elements, whatever order it gives to
\* the set made of another list.
RECURSIVE Processes(_)
Processes(lists) ==
    IF lists = {} THEN {NoProcess}
    ELSE LET xs == CHOOSE l \in lists : TRUE
             rest == Processes(lists \ {xs})
         IN  {[l \in lists |-> IF l = xs THEN k ELSE seed[l]] :
                 seed \in rest, k \in 0..(OrderCount(Len(Distinct(xs))) - 1)}

(***************************************************************************)
(* The partition of classify_colors.                                       *)
(***************************************************************************)
IsVibrant(c) == ~is_neutral(c)

\* The default palette of routers/brand.py in place of the one of
\* classify_colors: its accent differs.
FallbackPaletteBrand ==
    ColorPalette(<<"#","0","0","0","0","0","0">>,
                 <<"#","F","F","F","F","F","F">>,
                 <<"#","4","A","9","0","E","2">>,
                 << <<"#","F","5","F","5","F","5">>,
                    <<"#","3","3","3","3","3","3">> >>,
                 << <<"#","0","0","0","0","0","0">>,
                    <<"#","F","F","F","F","F","F">>,
                    <<"#","4","A","9","0","E","2">>,
                    <<"#","F","5","F","5","F","5">>,
                    <<"#","3","3","3","3","3","3">> >>)

\* The palette returned for an empty list.
FallbackPalette ==
    ColorPalette(<<"#","0","0","0","0","0","0">>,
                 <<"#","F","F","F","F","F","F">>,
                 <<"#","C","C","C","C","C","C">>,
                 << <<"#","F","5","F","5","F","5">>,
                    <<"#","3","3","3","3","3","3">> >>,
                 << <<"#","0","0","0","0","0","0">>,
                    <<"#","F","F","F","F","F","F">>,
                    <<"#","C","C","C","C","C","C">>,
                    <<"#","F","5","F","5","F","5">>,
                    <<"#","3","3","3","3","3","3">> >>)

\* reverse=True left out: the vibrant samples by ascending saturation.
vibrant_colors_ascending(colors) ==
    LET vibrant == SelectSeq(colors, IsVibrant)
    IN  StableSort(vibrant, [i \in 1..Len(vibrant) |-> saturation(vibrant[i])], FALSE)

\* A sample whose saturation is the threshold itself put in neither list.
AboveThreshold(c) == saturation(c) > NeutralThreshold

vibrant_colors_above_threshold(colors) ==
    LET vibrant == SelectSeq(colors, AboveThreshold)
    IN  StableSort(vibrant, [i \in 1..Len(vibrant) |-> saturation(vibrant[i])], TRUE)

\* The two lists of the partition, after their sort.
vibrant_colors(colors) ==
    LET vibrant == SelectSeq(colors, IsVibrant)
    IN  StableSort(vibrant, [i \in 1..Len(vibrant) |-> saturation(vibrant[i])], TRUE)

\* The sort left out: the neutral samples in input order.
neutral_colors_unsorted(colors) == SelectSeq(colors, is_neutral)

neutral_colors(colors) ==
    LET neutrals == SelectSeq(colors, is_neutral)
    IN  StableSort(neutrals,
                   [i \in 1..Len(neutrals) |-> calculate_luminance(neutrals[i])], FALSE)

\* Without a vibrant sample, the darkest neutral in place of the first sample.
primary_rgb_darkest(colors) ==
    IF vibrant_colors(colors) # <<>> THEN vibrant_colors(colors)[1]
    ELSE neutral_colors(colors)[1]

primary_rgb(colors) ==
    IF vibrant_colors(colors) # <<>> THEN vibrant_colors(colors)[1] ELSE colors[1]

\* The neutral list skipped in the chain.
secondary_rgb_second_sample(colors) ==
    IF Len(vibrant_colors(colors)) > 1 THEN vibrant_colors(colors)[2]
    ELSE IF Len(colors) > 1 THEN colors[2]
    ELSE primary_rgb(colors)

\* The chain ending on the white of the default palette, not on the primary.
secondary_rgb_white_fallback(colors) ==
    IF Len(vibrant_colors(colors)) > 1 THEN vibrant_colors(colors)[2]
    ELSE IF Len(colors) > 1
         THEN (IF neutral_colors(colors) # <<>> THEN neutral_colors(colors)[1]
               ELSE colors[2])
    ELSE <<255, 255, 255>>

secondary_rgb(colors) ==
    IF Len(vibrant_colors(colors)) > 1 THEN vibrant_colors(colors)[2]
    ELSE IF neutral_colors(colors) # <<>> THEN neutral_colors(colors)[1]
    ELSE IF Len(colors) > 1 THEN colors[2]
    ELSE primary_rgb(colors)

\* The accent following the secondary when there are fewer than 2 vibrants.
accent_rgb_follows_secondary(colors) ==
    IF Len(vibrant_colors(colors)) > 2 THEN vibrant_colors(colors)[3]
    ELSE secondary_rgb(colors)

accent_rgb(colors) ==
    IF Len(vibrant_colors(colors)) > 2 THEN vibrant_colors(colors)[3]
    ELSE IF Len(vibrant_colors(colors)) > 1 THEN vibrant_colors(colors)[2]
    ELSE primary_rgb(colors)

neutrals_hex(colors) ==
    LET top == Slice(neutral_colors(colors), 0, MaxClassifiedNeutrals)
    IN  [i \in 1..Len(top) |-> rgb_to_hex(top[i])]

\* The first sample left out of the conversion.
all_colors_hex_skip_first(colors) ==
    [i \in 1..(Len(colors) - 1) |-> rgb_to_hex(colors[i + 1])]

\* The sorted lists converted in place of the input list.
all_colors_hex_sorted(colors) ==
    LET sorted == vibrant_colors(colors) \o neutral_colors(colors)
    IN  [i \in 1..Len(sorted) |-> rgb_to_hex(sorted[i])]

all_colors_hex(colors) == [i \in 1..Len(colors) |-> rgb_to_hex(colors[i])]

\* A list without a vibrant sample handled as the empty list.
classify_colors_vibrant_required(colors) ==
    IF vibrant_colors(colors) = <<>> THEN Returned(FallbackPalette)
    ELSE Returned(ColorPalette(rgb_to_hex(primary_rgb(colors)),
                               rgb_to_hex(secondary_rgb(colors)),
                               rgb_to_hex(accent_rgb(colors)),
                               neutrals_hex(colors),
                               all_colors_hex(colors)))

classify_colors(colors) ==
    IF colors = <<>> THEN Returned(FallbackPalette)
    ELSE Returned(ColorPalette(rgb_to_hex(primary_rgb(colors)),
                               rgb_to_hex(secondary_rgb(colors)),
                               rgb_to_hex(accent_rgb(colors)),
                               neutrals_hex(colors),
                               all_colors_hex(colors)))

(***************************************************************************)
(* merge_palettes.                                                         *)
(***************************************************************************)
\* The values handed to the constructor of ColorPalette carry their Python
\* type, since the constructor tests it: a str with its characters, a list
\* and a tuple with their elements (values with their type), an int, a bool,
\* and None.
PyStr(s) == [type |-> "str", value |-> s]

PyList(items) == [type |-> "list", value |-> items]

PyTuple(items) == [type |-> "tuple", value |-> items]

PyInt(n) == [type |-> "int", value |-> n]

PyBool(b) == [type |-> "bool", value |-> b]

PyNone == [type |-> "NoneType", value |-> <<>>]

\* A list of str, as a value with its type.
PyStrList(l) == PyList([i \in 1..Len(l) |-> PyStr(l[i])])

\* A field annotated str accepts a str only.
IsStr(v) == v.type = "str"

\* A field annotated List[str] accepts a list or a tuple whose elements are
\* all str.
IsStrList(v) ==
    /\ v.type \in {"list", "tuple"}
    /\ \A i \in 1..Len(v.value) : IsStr(v.value[i])

\* The characters of the str elements of a validated list.
StrValues(v) == [i \in 1..Len(v.value) |-> v.value[i].value]

\* ColorPalette(primary=..., secondary=..., accent=..., neutrals=...,
\* all_colors=...): the data model checks the type of every field and raises
\* ValidationError when one is not a str, or a list of str; a tuple of str
\* is stored as a list.
NewColorPalette(primary, secondary, accent, neutrals, all_colors) ==
    IF /\ IsStr(primary) /\ IsStr(secondary) /\ IsStr(accent)
       /\ IsStrList(neutrals) /\ IsStrList(all_colors)
    THEN Returned(ColorPalette(primary.value, secondary.value, accent.value,
                               StrValues(neutrals), StrValues(all_colors)))
    ELSE Raised("ValidationError")

\* The secondary taken from the secondary of the second palette.
merge_palettes_secondary(p1, p2, seed) ==
    LET all_colors == list_set(p1.all_colors \o p2.all_colors, seed)
    IN  NewColorPalette(
            PyStr(p1.primary),
            PyStr(p2.secondary),
            PyStr(p1.accent),
            PyStrList(Slice(list_set(p1.neutrals \o p2.neutrals, seed), 0, MaxMergedNeutrals)),
            PyStrList(Slice(all_colors, 0, MaxMergedColors)))

\* The accent taken from the accent of the second palette.
merge_palettes_accent(p1, p2, seed) ==
    LET all_colors == list_set(p1.all_colors \o p2.all_colors, seed)
    IN  NewColorPalette(
            PyStr(p1.primary),
            PyStr(p2.primary),
            PyStr(p2.accent),
            PyStrList(Slice(list_set(p1.neutrals \o p2.neutrals, seed), 0, MaxMergedNeutrals)),
            PyStrList(Slice(all_colors, 0, MaxMergedColors)))

\* The accent taken from the merged list, which fails on an empty list.
merge_palettes_first_color(p1, p2, seed) ==
    LET all_colors == list_set(p1.all_colors \o p2.all_colors, seed)
    IN  IF all_colors = <<>> THEN Raised("IndexError")
        ELSE NewColorPalette(
            PyStr(p1.primary),
            PyStr(p2.primary),
            PyStr(all_colors[1]),
            PyStrList(Slice(list_set(p1.neutrals \o p2.neutrals, seed), 0, MaxMergedNeutrals)),
            PyStrList(Slice(all_colors, 0, MaxMergedColors)))

merge_palettes(p1, p2, seed) ==
    LET all_colors == list_set(p1.all_colors \o p2.all_colors, seed)
    IN  NewColorPalette(
            PyStr(p1.primary),
            PyStr(p2.primary),
            PyStr(p1.accent),
            PyStrList(Slice(list_set(p1.neutrals \o p2.neutrals, seed), 0, MaxMergedNeutrals)),
            PyStrList(Slice(all_colors, 0, MaxMergedColors)))

\* The lists merge_palettes(p1, p2) makes sets of.
MergeLists(p1, p2) == {p1.all_colors \o p2.all_colors, p1.neutrals \o p2.neutrals}

(***************************************************************************)
(* Inputs of the conversion helpers.                                       *)
(***************************************************************************)
\* Channel values: the boundaries of the zero padding and of the neutrality
\* threshold, both hex letter cases, and MaxExtraChannels generated values.
Channels ==
    {0, 9, 10, 15, 16, 100, 129, 130, 131, 171, 239, 255}
        \cup {(i * 37) % 256 : i \in 1..MaxExtraChannels}

RGBInputs == Channels \X Channels \X Channels

\* Characters of the strings handed to hex_to_rgb: the prefix, a digit, a
\* lowercase hex letter, a letter that is no hex digit, a sign, and a
\* whitespace character.
HexAlphabet == {"#", "1", "c", "G", "-", "\t"}

HexInputs == UNION {[1..k -> HexAlphabet] : k \in 0..MaxHexLen}

ConvIdle ==
    /\ rgb = <<>>
    /\ hex_out = NotCalled
    /\ hex_color = <<>>
    /\ rgb_out = NotCalled
    /\ neutral = NotCalled

ClassIdle ==
    /\ colors_rgb = <<>>
    /\ palette = NotCalled

MergeIdle ==
    /\ palette1 = <<>>
    /\ palette2 = <<>>
    /\ merged = NotCalled
    /\ hashseed = NoProcess

ServiceIdle ==
    /\ luminances = <<>>
    /\ image_source = <<>>
    /\ extraction = NotCalled
    /\ heap = <<>>
    /\ calls = <<>>
    /\ variant = <<>>
    /\ merged_variant = NotCalled
    /\ analysis = <<>>
    /\ response = NotCalled

(***************************************************************************)
(* The conversion helpers applied to an RGB triple.                        *)
(***************************************************************************)
InitRgb ==
    /\ rgb \in RGBInputs
    /\ hex_out = NotCalled
    /\ hex_color = <<>>
    /\ rgb_out = NotCalled
    /\ neutral = NotCalled
    /\ ClassIdle
    /\ MergeIdle
    /\ ServiceIdle

\* hex_out = rgb_to_hex(rgb)
RgbToHex ==
    /\ rgb # <<>>
    /\ hex_out' = Returned(rgb_to_hex(rgb))
    /\ UNCHANGED <<rgb, hex_color, rgb_out, neutral, classVars, mergeVars, serviceVars>>

\* rgb_out = hex_to_rgb(hex_out): the string produced by rgb_to_hex is parsed.
RoundTrip ==
    /\ hex_out.status = "returned"
    /\ hex_color' = hex_out.value
    /\ rgb_out' = hex_to_rgb(hex_out.value)
    /\ UNCHANGED <<rgb, hex_out, neutral, classVars, mergeVars, serviceVars>>

\* neutral = is_neutral(rgb)
IsNeutral ==
    /\ rgb # <<>>
    /\ neutral' = Returned(is_neutral(rgb))
    /\ UNCHANGED <<rgb, hex_out, hex_color, rgb_out, classVars, mergeVars, serviceVars>>

NextRgb == RgbToHex \/ RoundTrip \/ IsNeutral

SpecRgb == InitRgb /\ [][NextRgb]_vars

(***************************************************************************)
(* hex_to_rgb applied to an arbitrary string.                              *)
(***************************************************************************)
InitHex ==
    /\ rgb = <<>>
    /\ hex_out = NotCalled
    /\ hex_color \in HexInputs
    /\ rgb_out = NotCalled
    /\ neutral = NotCalled
    /\ ClassIdle
    /\ MergeIdle
    /\ ServiceIdle

\* rgb_out = hex_to_rgb(hex_color)
HexToRgb ==
    /\ rgb_out' = hex_to_rgb(hex_color)
    /\ UNCHANGED <<rgb, hex_out, hex_color, neutral, classVars, mergeVars, serviceVars>>

NextHex == HexToRgb

SpecHex == InitHex /\ [][NextHex]_vars

(***************************************************************************)
(* classify_colors applied to a list of samples.                           *)
(***************************************************************************)
\* Vibrant samples with equal and with different saturation, one of them at
\* the threshold; neutral samples from dark to light, one just below it.
SampleTable ==
    << <<255, 0, 0>>, <<10, 10, 10>>, <<0, 0, 255>>, <<240, 240, 240>>,
       <<200, 150, 150>>, <<100, 100, 129>>, <<100, 100, 130>>, <<110, 100, 100>>,
       <<0, 200, 0>>, <<128, 128, 128>>, <<255, 255, 0>>, <<60, 50, 40>> >>

SampleColors == {SampleTable[i] : i \in 1..Min2(NumSampleColors, Len(SampleTable))}

SampleLists == UNION {[1..k -> SampleColors] : k \in 0..MaxSamples}

InitClassify ==
    /\ ConvIdle
    /\ colors_rgb \in SampleLists
    /\ palette = NotCalled
    /\ MergeIdle
    /\ ServiceIdle

\* palette = classify_colors(colors_rgb)
Classify ==
    /\ palette' = classify_colors(colors_rgb)
    /\ UNCHANGED <<convVars, colors_rgb, mergeVars, serviceVars>>

NextClassify == Classify

SpecClassify == InitClassify /\ [][NextClassify]_vars

(***************************************************************************)
(* classify_colors applied to the five-sample lists of the partition test: *)
(* one sample of saturation 50, one of saturation 30, and three below 30   *)
(* of which one has saturation 10, in every order.                         *)
(***************************************************************************)
SamplesOfSaturation(colors, d) == {i \in 1..Len(colors) : saturation(colors[i]) = d}

PartitionLists ==
    {l \in [1..5 -> SampleColors] :
        /\ Cardinality(SamplesOfSaturation(l, 50)) = 1
        /\ Cardinality(SamplesOfSaturation(l, 30)) = 1
        /\ SamplesOfSaturation(l, 10) # {}
        /\ \A i \in 1..5 : saturation(l[i]) \in {50, 30} \/ saturation(l[i]) < 30}

InitPartition ==
    /\ ConvIdle
    /\ colors_rgb \in PartitionLists
    /\ palette = NotCalled
    /\ MergeIdle
    /\ ServiceIdle

SpecPartition == InitPartition /\ [][NextClassify]_vars

(***************************************************************************)
(* merge_palettes applied to two palettes, in a process whose string hash  *)
(* key, and with it the order of its sets, is drawn when it starts.        *)
(***************************************************************************)
\* Pairwise distinct colours.
MergeColor(i) == rgb_to_hex(<<(i * 37) % 256, (i * 59) % 256, (i * 83) % 256>>)

\* A palette whose all_colors are n consecutive colours from the s-th on,
\* followed by a repetition of the first one when dup; its roles are the
\* first three of them and its neutrals the last k.
WindowPalette(s, n, k, dup) ==
    LET all == [i \in 1..n |-> MergeColor(s + i - 1)]
        primary == IF n >= 1 THEN all[1] ELSE MergeColor(s)
    IN  ColorPalette(primary,
                     IF n >= 2 THEN all[2] ELSE primary,
                     IF n >= 3 THEN all[3] ELSE primary,
                     SubSeq(all, n - k + 1, n),
                     IF dup /\ n >= 1 THEN Append(all, all[1]) ELSE all)

\* First palettes with at most one neutral: every length up to the longest,
\* with and without a repeated colour.
SmallPalettes1 ==
    {WindowPalette(1, n, Min2(k, n), d) :
        n \in {0, 1, 2, MaxPaletteColors}, k \in {0, 1}, d \in BOOLEAN}

\* Second palettes with at most one neutral: of the colours of the first
\* palette or of other colours; without colours; with two colours, when the
\* secondary is the only role besides the primary; with three colours, when
\* the three roles differ.
SmallPalettes2 ==
    {WindowPalette(s, n, Min2(k, n), FALSE) :
        s \in {1, MaxPaletteColors + 1}, n \in {0, 2, 3}, k \in {0, 1}}
    \cup {WindowPalette(7, 0, 0, FALSE)}

\* Two palettes of neutral colours only, the longest ones, whose neutrals
\* and all_colors are the same list: the same palette twice, and two
\* palettes with one colour in common.
NeutralPairs ==
    {<<WindowPalette(1, MaxPaletteNeutrals, MaxPaletteNeutrals, FALSE),
       WindowPalette(s, MaxPaletteNeutrals, MaxPaletteNeutrals, FALSE)>> :
        s \in {1, MaxPaletteNeutrals}}

\* The fallback palette merged with itself, with a palette without colours
\* and with a palette of one colour.
FallbackPairs ==
    {<<FallbackPalette, FallbackPalette>>,
     <<FallbackPalette, WindowPalette(1, 0, 0, FALSE)>>,
     <<WindowPalette(1, 1, 1, FALSE), FallbackPalette>>}

MergeInputs == (SmallPalettes1 \X SmallPalettes2) \cup NeutralPairs \cup FallbackPairs

InitMerge ==
    /\ ConvIdle
    /\ ClassIdle
    /\ \E pair \in MergeInputs :
           /\ palette1 = pair[1]
           /\ palette2 = pair[2]
    /\ merged = NotCalled
    /\ hashseed \in Processes(MergeLists(palette1, palette2))
    /\ ServiceIdle

\* merged = merge_palettes(palette1, palette2)
MergePalettes ==
    /\ merged' = merge_palettes(palette1, palette2, hashseed)
    /\ UNCHANGED <<convVars, classVars, palette1, palette2, hashseed, serviceVars>>

NextMerge == MergePalettes

SpecMerge == InitMerge /\ [][NextMerge]_vars

(***************************************************************************)
(* merge_palettes called again on the same two palettes, in the same       *)
(* process or after the process was started again.                         *)
(***************************************************************************)
\* The service process is started again: the interpreter draws a new key,
\* which gives the sets any order.  merged stays what the last call returned
\* to its caller.
Restart ==
    /\ \E s \in Processes(DOMAIN hashseed) : s # hashseed /\ hashseed' = s
    /\ UNCHANGED <<convVars, classVars, palette1, palette2, merged, serviceVars>>

\* Palettes of two and three colours merged with a palette without colours,
\* with themselves and with a palette that has other colours.
RemergeInputs ==
    {WindowPalette(1, n, Min2(k, n), FALSE) : n \in {2, 3}, k \in {0, 1}}
    \X {WindowPalette(s, n, Min2(k, n), FALSE) :
            s \in {1, 3}, n \in {0, 2}, k \in {0, 1}}

InitRemerge ==
    /\ ConvIdle
    /\ ClassIdle
    /\ \E pair \in RemergeInputs :
           /\ palette1 = pair[1]
           /\ palette2 = pair[2]
    /\ merged = NotCalled
    /\ hashseed \in Processes(MergeLists(palette1, palette2))
    /\ ServiceIdle

NextRemerge == MergePalettes \/ Restart

SpecRemerge == InitRemerge /\ [][NextRemerge]_vars

(***************************************************************************)
(* merge_palettes called on two palettes, and on the same two palettes     *)
(* with other values in palette1.secondary, palette2.secondary and         *)
(* palette2.accent, in one process.  variant holds the three other values. *)
(***************************************************************************)
\* Two palettes of three colours whose roles all differ, with a colour in
\* common and without, and the palettes whose merged lists are cut.
VariantInputs ==
    {<<WindowPalette(1, 3, 1, FALSE), WindowPalette(s, 3, 1, FALSE)>> : s \in {3, 4}}
    \cup NeutralPairs

\* The empty string stands for the value the field has.
Same == <<>>

\* The values put in the three fields: a colour neither palette has, or the
\* value the field has.
VariantColors == {Same, MergeColor(2 * MaxPaletteNeutrals + 2)}

Variants ==
    {v \in [secondary1 : VariantColors, secondary2 : VariantColors,
            accent2 : VariantColors] :
        v.secondary1 # Same \/ v.secondary2 # Same \/ v.accent2 # Same}

\* The field with its other value.
Replaced(field, other) == IF other = Same THEN field ELSE other

VariantPalette1(p, v) == [p EXCEPT !.secondary = Replaced(@, v.secondary1)]

VariantPalette2(p, v) ==
    [p EXCEPT !.secondary = Replaced(@, v.secondary2),
              !.accent = Replaced(@, v.accent2)]

InitVariant ==
    /\ ConvIdle
    /\ ClassIdle
    /\ \E pair \in VariantInputs :
           /\ palette1 = pair[1]
           /\ palette2 = pair[2]
    /\ merged = NotCalled
    /\ hashseed \in Processes(MergeLists(palette1, palette2))
    /\ luminances = <<>>
    /\ image_source = <<>>
    /\ extraction = NotCalled
    /\ heap = <<>>
    /\ calls = <<>>
    /\ variant \in Variants
    /\ merged_variant = NotCalled
    /\ analysis = <<>>
    /\ response = NotCalled

\* merged = merge_palettes(palette1, palette2)
MergeOriginal ==
    /\ merged.status = "not_called"
    /\ merged' = merge_palettes(palette1, palette2, hashseed)
    /\ UNCHANGED <<convVars, classVars, palette1, palette2, hashseed,
                   luminances, extractVars, heap, calls, variantVars,
                   endpointVars>>

\* merged_variant = merge_palettes of the palettes with the other values
MergeVariant ==
    /\ merged_variant.status = "not_called"
    /\ merged_variant' = merge_palettes(VariantPalette1(palette1, variant),
                                        VariantPalette2(palette2, variant),
                                        hashseed)
    /\ UNCHANGED <<convVars, classVars, mergeVars, luminances, extractVars,
                   heap, calls, variant, endpointVars>>

NextVariant == MergeOriginal \/ MergeVariant

SpecVariant == InitVariant /\ [][NextVariant]_vars

(***************************************************************************)
(* calculate_luminance called on a few colours, one call after another.    *)
(***************************************************************************)
\* The grays of the channel values above, and the eight corners of the cube.
LuminanceInputs ==
    {<<v, v, v>> : v \in Channels} \cup ({0, 255} \X {0, 255} \X {0, 255})

InitLuminance ==
    /\ ConvIdle
    /\ ClassIdle
    /\ MergeIdle
    /\ ServiceIdle

\* luminances holds the argument and the result of every call so far.
CalculateLuminance ==
    /\ Len(luminances) < MaxLuminanceCalls
    /\ \E c \in LuminanceInputs :
           luminances' = Append(luminances,
                                [rgb |-> c, value |-> calculate_luminance(c)])
    /\ UNCHANGED <<convVars, classVars, mergeVars, extractVars, heap,
                   calls, variantVars, endpointVars>>

NextLuminance == CalculateLuminance

SpecLuminance == InitLuminance /\ [][NextLuminance]_vars

(***************************************************************************)
(* Calls of classify_colors and merge_palettes in progress together, one   *)
(* statement at a time.  A Python list is an object: heap[i] is what the   *)
(* list of identity i holds, and a name or a field holds an identity.  A   *)
(* ColorPalette object holds three str and the identities of its two       *)
(* lists.  Each call has a frame with its own arguments and local names:   *)
(*   op, pc                     the function and the statement to run next *)
(*   colors_rgb                 argument of classify_colors                *)
(*   palette1, palette2         arguments of merge_palettes                *)
(*   vibrant_colors, neutral_colors, all_colors                            *)
(*                              the local lists (0: not bound yet)         *)
(*   next                       position of the loop of lines 58-63        *)
(*   result                     the palette returned                       *)
(*   input                      what the arguments held when the call was  *)
(*                              made                                       *)
(*   overlapped                 a statement of the call ran while another  *)
(*                              call was between its first and its last    *)
(***************************************************************************)
PaletteRef(primary, secondary, accent, neutrals, all_colors) ==
    [primary |-> primary, secondary |-> secondary, accent |-> accent,
     neutrals |-> neutrals, all_colors |-> all_colors]

\* The palette as a value: its lists read from the heap.
PaletteValue(h, p) ==
    ColorPalette(p.primary, p.secondary, p.accent, h[p.neutrals], h[p.all_colors])

NoPalette == PaletteRef(<<>>, <<>>, <<>>, 0, 0)

Frame(op, colors, p1, p2, input) ==
    [op |-> op, pc |-> "enter", colors_rgb |-> colors,
     palette1 |-> p1, palette2 |-> p2,
     vibrant_colors |-> 0, neutral_colors |-> 0, all_colors |-> 0,
     next |-> 0, result |-> NoPalette, input |-> input, overlapped |-> FALSE]

Running(k) == calls[k].pc \notin {"enter", "done"}

\* The frames after call k ran a statement that left its frame as frame.
Ran(k, frame) ==
    [calls EXCEPT ![k] =
        [frame EXCEPT !.overlapped =
            @ \/ \E j \in DOMAIN calls : j # k /\ Running(j)]]

OtherVarsOfCalls ==
    <<convVars, classVars, mergeVars, luminances, extractVars, variantVars,
      endpointVars>>

\* The two local lists kept between calls: a call binds its names to the
\* lists of an earlier call when there is one.
ClassifyEnterSharedLists(k) ==
    LET c == calls[k]
        new == Len(heap) + 1
        earlier == {j \in DOMAIN calls : calls[j].vibrant_colors # 0}
    IN  /\ c.op = "classify_colors"
        /\ c.pc = "enter"
        /\ IF heap[c.colors_rgb] = <<>>
           THEN /\ heap' = heap \o <<FallbackPalette.neutrals,
                                      FallbackPalette.all_colors>>
                /\ calls' = Ran(k, [c EXCEPT
                       !.pc = "done",
                       !.result = PaletteRef(FallbackPalette.primary,
                                             FallbackPalette.secondary,
                                             FallbackPalette.accent,
                                             new, new + 1)])
           ELSE IF earlier # {}
           THEN /\ heap' = heap
                /\ calls' = Ran(k, [c EXCEPT
                       !.pc = "partition",
                       !.vibrant_colors =
                           calls[CHOOSE j \in earlier : TRUE].vibrant_colors,
                       !.neutral_colors =
                           calls[CHOOSE j \in earlier : TRUE].neutral_colors,
                       !.next = 1])
           ELSE /\ heap' = heap \o << <<>>, <<>> >>
                /\ calls' = Ran(k, [c EXCEPT
                       !.pc = "partition",
                       !.vibrant_colors = new,
                       !.neutral_colors = new + 1,
                       !.next = 1])
        /\ UNCHANGED OtherVarsOfCalls

\* Lines 45-57: the fallback for an empty list, else two new empty lists.
ClassifyEnter(k) ==
    LET c == calls[k]
        new == Len(heap) + 1
    IN  /\ c.op = "classify_colors"
        /\ c.pc = "enter"
        /\ IF heap[c.colors_rgb] = <<>>
           THEN /\ heap' = heap \o <<FallbackPalette.neutrals,
                                      FallbackPalette.all_colors>>
                /\ calls' = Ran(k, [c EXCEPT
                       !.pc = "done",
                       !.result = PaletteRef(FallbackPalette.primary,
                                             FallbackPalette.secondary,
                                             FallbackPalette.accent,
                                             new, new + 1)])
           ELSE /\ heap' = heap \o << <<>>, <<>> >>
                /\ calls' = Ran(k, [c EXCEPT
                       !.pc = "partition",
                       !.vibrant_colors = new,
                       !.neutral_colors = new + 1,
                       !.next = 1])
        /\ UNCHANGED OtherVarsOfCalls

\* Lines 58-63: one round of the loop, or its end.
ClassifyPartition(k) ==
    LET c == calls[k]
        colors == heap[c.colors_rgb]
    IN  /\ c.op = "classify_colors"
        /\ c.pc = "partition"
        /\ IF c.next <= Len(colors)
           THEN LET sample == colors[c.next]
                    target == IF is_neutral(sample) THEN c.neutral_colors
                              ELSE c.vibrant_colors
                IN  /\ heap' = [heap EXCEPT ![target] = Append(@, sample)]
                    /\ calls' = Ran(k, [c EXCEPT !.next = @ + 1])
           ELSE /\ heap' = heap
                /\ calls' = Ran(k, [c EXCEPT !.pc = "sort_vibrant"])
        /\ UNCHANGED OtherVarsOfCalls

\* Line 72: vibrant_colors.sort(key=saturation, reverse=True)
ClassifySortVibrant(k) ==
    LET c == calls[k]
        l == heap[c.vibrant_colors]
    IN  /\ c.op = "classify_colors"
        /\ c.pc = "sort_vibrant"
        /\ heap' = [heap EXCEPT ![c.vibrant_colors] =
               StableSort(l, [i \in 1..Len(l) |-> saturation(l[i])], TRUE)]
        /\ calls' = Ran(k, [c EXCEPT !.pc = "sort_neutral"])
        /\ UNCHANGED OtherVarsOfCalls

\* The argument sorted with the neutral list.
ClassifySortNeutralAndArgument(k) ==
    LET c == calls[k]
        l == heap[c.neutral_colors]
        a == heap[c.colors_rgb]
    IN  /\ c.op = "classify_colors"
        /\ c.pc = "sort_neutral"
        /\ heap' = [heap EXCEPT
               ![c.neutral_colors] = StableSort(l,
                   [i \in 1..Len(l) |-> calculate_luminance(l[i])], FALSE),
               ![c.colors_rgb] = StableSort(a,
                   [i \in 1..Len(a) |-> calculate_luminance(a[i])], FALSE)]
        /\ calls' = Ran(k, [c EXCEPT !.pc = "assign"])
        /\ UNCHANGED OtherVarsOfCalls

\* Line 75: neutral_colors.sort(key=calculate_luminance)
ClassifySortNeutral(k) ==
    LET c == calls[k]
        l == heap[c.neutral_colors]
    IN  /\ c.op = "classify_colors"
        /\ c.pc = "sort_neutral"
        /\ heap' = [heap EXCEPT ![c.neutral_colors] =
               StableSort(l, [i \in 1..Len(l) |-> calculate_luminance(l[i])], FALSE)]
        /\ calls' = Ran(k, [c EXCEPT !.pc = "assign"])
        /\ UNCHANGED OtherVarsOfCalls

\* Lines 78-99: the roles, the two lists of hex colours and the palette.
ClassifyAssign(k) ==
    LET c == calls[k]
        colors == heap[c.colors_rgb]
        vibrant == heap[c.vibrant_colors]
        neutrals == heap[c.neutral_colors]
        primary == IF vibrant # <<>> THEN vibrant[1] ELSE colors[1]
        secondary == IF Len(vibrant) > 1 THEN vibrant[2]
                     ELSE IF neutrals # <<>> THEN neutrals[1]
                     ELSE IF Len(colors) > 1 THEN colors[2]
                     ELSE primary
        accent == IF Len(vibrant) > 2 THEN vibrant[3]
                  ELSE IF Len(vibrant) > 1 THEN vibrant[2]
                  ELSE primary
        top == Slice(neutrals, 0, MaxClassifiedNeutrals)
        new == Len(heap) + 1
    IN  /\ c.op = "classify_colors"
        /\ c.pc = "assign"
        /\ heap' = heap \o << [i \in 1..Len(top) |-> rgb_to_hex(top[i])],
                             [i \in 1..Len(colors) |-> rgb_to_hex(colors[i])] >>
        /\ calls' = Ran(k, [c EXCEPT
               !.pc = "done",
               !.result = PaletteRef(rgb_to_hex(primary), rgb_to_hex(secondary),
                                     rgb_to_hex(accent), new, new + 1)])
        /\ UNCHANGED OtherVarsOfCalls

\* Line 174: all_colors = list(set(palette1.all_colors + palette2.all_colors))
MergeEnter(k) ==
    LET c == calls[k]
    IN  /\ c.op = "merge_palettes"
        /\ c.pc = "enter"
        /\ heap' = Append(heap,
               list_set(heap[c.palette1.all_colors] \o heap[c.palette2.all_colors],
                        hashseed))
        /\ calls' = Ran(k, [c EXCEPT !.pc = "build", !.all_colors = Len(heap) + 1])
        /\ UNCHANGED OtherVarsOfCalls

\* Lines 177-183: the neutrals, the slice of all_colors and the palette.
MergeBuild(k) ==
    LET c == calls[k]
        new == Len(heap) + 1
    IN  /\ c.op = "merge_palettes"
        /\ c.pc = "build"
        /\ heap' = heap \o
               << Slice(list_set(heap[c.palette1.neutrals] \o heap[c.palette2.neutrals],
                                 hashseed), 0, MaxMergedNeutrals),
                  Slice(heap[c.all_colors], 0, MaxMergedColors) >>
        /\ calls' = Ran(k, [c EXCEPT
               !.pc = "done",
               !.result = PaletteRef(c.palette1.primary, c.palette2.primary,
                                     c.palette1.accent, new, new + 1)])
        /\ UNCHANGED OtherVarsOfCalls

\* The lists handed to classify_colors: empty, two samples, and four samples
\* that are in order neither of saturation nor of luminance.
CallLists ==
    {<<>>,
     <<SampleTable[3], SampleTable[2]>>,
     <<SampleTable[4], SampleTable[5], SampleTable[2], SampleTable[1]>>}

CallPalette1 == WindowPalette(1, 2, 1, TRUE)
CallPalette2 == WindowPalette(2, 2, 1, FALSE)

\* The objects that exist before the calls: two sample lists and the lists of
\* two palettes.
InitialHeap(l) ==
    <<l, <<SampleTable[1]>>,
      CallPalette1.neutrals, CallPalette1.all_colors,
      CallPalette2.neutrals, CallPalette2.all_colors>>

InitialPalette1 ==
    PaletteRef(CallPalette1.primary, CallPalette1.secondary, CallPalette1.accent, 3, 4)
InitialPalette2 ==
    PaletteRef(CallPalette2.primary, CallPalette2.secondary, CallPalette2.accent, 5, 6)

\* The calls that can be made on these objects; calls may share arguments,
\* and the second call of merge_palettes is handed one palette twice.
InitialFrames(h) ==
    <<Frame("classify_colors", 1, NoPalette, NoPalette, <<h[1]>>),
      Frame("classify_colors", 2, NoPalette, NoPalette, <<h[2]>>),
      Frame("merge_palettes", 0, InitialPalette1, InitialPalette2,
            <<PaletteValue(h, InitialPalette1), PaletteValue(h, InitialPalette2)>>),
      Frame("merge_palettes", 0, InitialPalette1, InitialPalette1,
            <<PaletteValue(h, InitialPalette1), PaletteValue(h, InitialPalette1)>>)>>

\* MaxCalls of them; which call is numbered first makes no difference, so
\* they are numbered in the order of the list above.
InitialCalls(h) ==
    {[k \in 1..MaxCalls |-> InitialFrames(h)[pick[k]]] :
        pick \in {f \in [1..MaxCalls -> 1..Len(InitialFrames(h))] :
                     \A k \in 1..(MaxCalls - 1) : f[k] <= f[k + 1]}}

\* The lists the calls of merge_palettes among cs make sets of.
CallsLists(cs) ==
    UNION {MergeLists(cs[k].input[1], cs[k].input[2]) :
              k \in {j \in DOMAIN cs : cs[j].op = "merge_palettes"}}

InitCalls ==
    /\ ConvIdle
    /\ ClassIdle
    /\ palette1 = <<>>
    /\ palette2 = <<>>
    /\ merged = NotCalled
    /\ luminances = <<>>
    /\ image_source = <<>>
    /\ extraction = NotCalled
    /\ \E l \in CallLists : heap = InitialHeap(l)
    /\ calls \in InitialCalls(heap)
    /\ hashseed \in Processes(CallsLists(calls))
    /\ variant = <<>>
    /\ merged_variant = NotCalled
    /\ analysis = <<>>
    /\ response = NotCalled

Step(k) ==
    \/ ClassifyEnter(k)
    \/ ClassifyPartition(k)
    \/ ClassifySortVibrant(k)
    \/ ClassifySortNeutral(k)
    \/ ClassifyAssign(k)
    \/ MergeEnter(k)
    \/ MergeBuild(k)

NextCalls == \E k \in DOMAIN calls : Step(k)

SpecCalls == InitCalls /\ [][NextCalls]_vars

(***************************************************************************)
(* extract_colors_from_image.  The collaborators (requests, PIL and        *)
(* ColorThief) are outside the repository: what each of their calls does   *)
(* is part of the image source, and every outcome is possible.  An image   *)
(* source is a record                                                      *)
(*   kind          "url" for a str argument, "bytes" otherwise             *)
(*   get           outcome of requests.get                                 *)
(*   raise_for_status, open, verify, get_color, get_palette                *)
(*                 outcome of that call: "ok" or the exception it raises   *)
(*   dominant      the colour get_color returns                            *)
(*   quantized     the colours get_palette returns                         *)
(* num_colors and quality are handed to ColorThief unread.                 *)
(* The outcome of a call carries, next to status and value, the number of  *)
(* HTTP requests sent, the calls made in order, and the exception that a   *)
(* raised exception was made from.                                         *)
(***************************************************************************)
Extraction(status, value, fetches, steps, cause) ==
    [status |-> status, value |-> value, fetches |-> fetches,
     steps |-> steps, cause |-> cause]

\* Lines 119-126: a str is fetched by one requests.get, whose failure and
\* whose error status are raised to the caller.
LoadSteps(src) ==
    IF src.kind = "url"
    THEN IF src.get # "ok" THEN <<"requests.get">>
         ELSE <<"requests.get", "raise_for_status">>
    ELSE <<>>

LoadFailure(src) ==
    IF src.kind # "url" THEN "ok"
    ELSE IF src.get # "ok" THEN src.get
    ELSE src.raise_for_status

\* Lines 128-151, after the bytes are loaded: fetches requests were sent and
\* the calls of loaded were made.
extract_loaded(src, fetches, loaded) ==
    \* lines 129-134: any failure of open or verify becomes a ValueError
    IF src.open # "ok"
    THEN Extraction("ValueError", <<>>, fetches,
                    loaded \o <<"Image.open">>, src.open)
    ELSE IF src.verify # "ok"
    THEN Extraction("ValueError", <<>>, fetches,
                    loaded \o <<"Image.open", "verify">>, src.verify)
    \* lines 137-138
    ELSE IF src.get_color # "ok"
    THEN Extraction(src.get_color, <<>>, fetches,
                    loaded \o <<"Image.open", "verify", "get_color">>, "none")
    \* lines 144-151: a failure of get_palette leaves the dominant colour
    ELSE LET pal == IF src.get_palette = "ok" THEN src.quantized
                    ELSE <<src.dominant>>
             result == classify_colors(pal)
         IN  Extraction(result.status, result.value, fetches,
                        loaded \o <<"Image.open", "verify", "get_color",
                                    "get_palette", "classify_colors">>,
                        "none")

\* A variant that sends the request a second time when the first one fails,
\* and goes on with what the second one returns.
extract_colors_from_image_retry(src) ==
    IF src.kind = "url" /\ src.get # "ok"
    THEN IF src.raise_for_status # "ok"
         THEN Extraction(src.raise_for_status, <<>>, 2,
                         <<"requests.get", "requests.get", "raise_for_status">>, "none")
         ELSE extract_loaded(src, 2,
                         <<"requests.get", "requests.get", "raise_for_status">>)
    ELSE IF LoadFailure(src) # "ok"
    THEN Extraction(LoadFailure(src), <<>>, 1, LoadSteps(src), "none")
    ELSE extract_loaded(src, IF src.kind = "url" THEN 1 ELSE 0, LoadSteps(src))

extract_colors_from_image(src) ==
    LET fetches == IF src.kind = "url" THEN 1 ELSE 0
    IN  IF LoadFailure(src) # "ok"
        THEN Extraction(LoadFailure(src), <<>>, fetches, LoadSteps(src), "none")
        ELSE extract_loaded(src, fetches, LoadSteps(src))

\* The colours a quantizer returns here.
QuantizedLists == UNION {[1..k -> SampleColors] : k \in 0..(MaxSamples - 2)}

ImageSources ==
    [kind : {"url", "bytes"},
     get : {"ok", "ConnectionError", "Timeout"},
     raise_for_status : {"ok", "HTTPError"},
     open : {"ok", "UnidentifiedImageError"},
     verify : {"ok", "SyntaxError"},
     get_color : {"ok", "Exception"},
     get_palette : {"ok", "Exception"},
     dominant : {SampleTable[1], SampleTable[2]},
     quantized : {l \in QuantizedLists : Len(l) = MaxSamples - 2 \/ l = <<>>}]

InitExtract ==
    /\ ConvIdle
    /\ ClassIdle
    /\ MergeIdle
    /\ luminances = <<>>
    /\ image_source \in ImageSources
    /\ extraction = NotCalled
    /\ heap = <<>>
    /\ calls = <<>>
    /\ variant = <<>>
    /\ merged_variant = NotCalled
    /\ analysis = <<>>
    /\ response = NotCalled

\* extraction = extract_colors_from_image(image_source)
ExtractColorsFromImage ==
    /\ extraction.status = "not_called"
    /\ extraction' = extract_colors_from_image(image_source)
    /\ UNCHANGED <<convVars, classVars, mergeVars, luminances, image_source,
                   heap, calls, variantVars, endpointVars>>

NextExtract == ExtractColorsFromImage

SpecExtract == InitExtract /\ [][NextExtract]_vars

(***************************************************************************)
(* routers/brand.py, analyze_complete.  The request and what its           *)
(* collaborators do are a record                                           *)
(*   logo_file, website_url   the parameter is given                       *)
(*   read, scrape, ai         outcome of logo_file.read(),                 *)
(*                            scraper.scrape_website and                   *)
(*                            ai_service.analyze_website_content           *)
(*   images                   the scraped page lists an image              *)
(*   logo, image              the image sources handed to                  *)
(*                            extract_colors_from_bytes and                *)
(*                            extract_colors_from_url                      *)
(* An Optional value is a record [present, value].  Tone, sector and the   *)
(* other text fields of the Brand DNA are left out: they take values of    *)
(* their enumerations or stay at their defaults.                           *)
(* The function is a coroutine: a request with a logo is suspended at      *)
(* await logo_file.read() (line 117), where another request may run; the   *)
(* rest of the function has no await.  analysis holds the requests, each   *)
(* with its position pc: "start", "read" (suspended at the await) or       *)
(* "done", and overlapped, which tells that it ran while another request   *)
(* was suspended; response holds what each request returned.               *)
(***************************************************************************)
None == [present |-> FALSE, value |-> <<>>]
Some(v) == [present |-> TRUE, value |-> v]

\* Lines 174-180.
DefaultPalette ==
    ColorPalette(<<"#","0","0","0","0","0","0">>,
                 <<"#","F","F","F","F","F","F">>,
                 <<"#","4","A","9","0","E","2">>,
                 << <<"#","F","5","F","5","F","5">>,
                    <<"#","3","3","3","3","3","3">> >>,
                 << <<"#","0","0","0","0","0","0">>,
                    <<"#","F","F","F","F","F","F">>,
                    <<"#","4","A","9","0","E","2">>,
                    <<"#","F","5","F","5","F","5">>,
                    <<"#","3","3","3","3","3","3">> >>)

\* A call of extract_colors_from_image inside try / except Exception: pass.
ExtractOrNone(src) ==
    LET e == extract_colors_from_image(src)
    IN  IF e.status = "returned" THEN Some(e.value) ELSE None

\* Lines 115-120.
colors_from_logo(req) ==
    IF req.logo_file /\ req.read = "ok" THEN ExtractOrNone(req.logo) ELSE None

\* Lines 123-163: the colours are extracted after the scraping and the
\* analysis, inside their try.
colors_from_website(req) ==
    IF req.website_url /\ req.scrape = "ok" /\ req.ai = "ok" /\ req.images
    THEN ExtractOrNone(req.image)
    ELSE None

\* Lines 132-140.
scrape_data(req) == req.website_url /\ req.scrape = "ok" /\ req.ai = "ok"

AnalyzeCompleteResponse(colors, scraped, logo, website) ==
    Returned([brand_dna_colors |-> colors, scrape_data |-> scraped,
              colors_from_logo |-> logo, colors_from_website |-> website])

\* The palette of the logo taken alone when both palettes were extracted.
analyze_complete_logo_alone(req, seed) ==
    LET logo == colors_from_logo(req)
        website == colors_from_website(req)
        colors == IF logo.present THEN logo.value
                  ELSE IF website.present THEN website.value
                  ELSE DefaultPalette
    IN  AnalyzeCompleteResponse(Some(colors), scrape_data(req), logo, website)

\* Lines 100-190.
analyze_complete(req, seed) ==
    LET logo == colors_from_logo(req)
        website == colors_from_website(req)
        colors == IF logo.present /\ website.present
                  THEN merge_palettes(logo.value, website.value, seed).value
                  ELSE IF logo.present THEN logo.value
                  ELSE IF website.present THEN website.value
                  ELSE DefaultPalette
    IN  AnalyzeCompleteResponse(Some(colors), scrape_data(req), logo, website)

\* The lists the merge of a request makes sets of: none when one of the two
\* palettes is missing.
AnalyzeLists(req) ==
    LET logo == colors_from_logo(req)
        website == colors_from_website(req)
    IN  IF logo.present /\ website.present
        THEN MergeLists(logo.value, website.value)
        ELSE {}

\* An image source whose calls all succeed.
GoodSource(kind, quantized) ==
    [kind |-> kind, get |-> "ok", raise_for_status |-> "ok", open |-> "ok",
     verify |-> "ok", get_color |-> "ok", get_palette |-> "ok",
     dominant |-> SampleTable[1], quantized |-> quantized]

\* The uploaded logos: two images, each also as bytes that do not decode and
\* as an image for which get_palette fails.
LogoSources ==
    {[GoodSource("bytes", q) EXCEPT !.open = o, !.get_palette = g] :
        q \in {<<SampleTable[1], SampleTable[2]>>, <<SampleTable[5]>>},
        o \in {"ok", "UnidentifiedImageError"},
        g \in {"ok", "Exception"}}

\* The first image of the page: an image of other colours than the logo and
\* an image of a colour of the logo, each also behind a URL that cannot be
\* fetched.
WebsiteSources ==
    {[GoodSource("url", q) EXCEPT !.get = f] :
        q \in {<<SampleTable[3], SampleTable[4]>>, <<SampleTable[1]>>},
        f \in {"ok", "ConnectionError"}}

DefaultLogo == GoodSource("bytes", <<SampleTable[1], SampleTable[2]>>)
DefaultImage == GoodSource("url", <<SampleTable[3], SampleTable[4]>>)

\* The requests; what a request never calls has its first outcome.
AnalyzeRequests ==
    {r \in [logo_file : BOOLEAN, read : {"ok", "Exception"}, logo : LogoSources,
            website_url : BOOLEAN, scrape : {"ok", "Exception"},
            ai : {"ok", "Exception"}, images : BOOLEAN, image : WebsiteSources] :
        /\ ~r.logo_file => r.read = "ok"
        /\ ~(r.logo_file /\ r.read = "ok") => r.logo = DefaultLogo
        /\ ~r.website_url => r.scrape = "ok"
        /\ ~(r.website_url /\ r.scrape = "ok") => r.ai = "ok"
        /\ ~(r.website_url /\ r.scrape = "ok" /\ r.ai = "ok") => r.images
        /\ ~(r.website_url /\ r.scrape = "ok" /\ r.ai = "ok" /\ r.images) =>
               r.image = DefaultImage}

\* The requests made while another request is served: one with a logo alone,
\* whose read fails or not, and one with a URL alone.
ConcurrentRequests ==
    {r \in AnalyzeRequests :
        /\ r.logo_file # r.website_url
        /\ r.logo = DefaultLogo
        /\ r.scrape = "ok" /\ r.ai = "ok" /\ r.images
        /\ r.image = DefaultImage}

InitAnalyze ==
    /\ ConvIdle
    /\ ClassIdle
    /\ palette1 = <<>>
    /\ palette2 = <<>>
    /\ merged = NotCalled
    /\ \E r \in AnalyzeRequests, c \in ConcurrentRequests :
           analysis = <<[req |-> r, pc |-> "start", overlapped |-> FALSE],
                        [req |-> c, pc |-> "start", overlapped |-> FALSE]>>
    /\ hashseed \in Processes(UNION {AnalyzeLists(analysis[i].req) : i \in DOMAIN analysis})
    /\ luminances = <<>>
    /\ image_source = <<>>
    /\ extraction = NotCalled
    /\ heap = <<>>
    /\ calls = <<>>
    /\ variant = <<>>
    /\ merged_variant = NotCalled
    /\ response = [i \in DOMAIN analysis |-> NotCalled]

\* The requests after request i ran to position pc: overlapped tells that it
\* ran while another request was suspended.
Served(i, pc) ==
    [analysis EXCEPT ![i] =
        [@ EXCEPT !.pc = pc,
                  !.overlapped =
                      @ \/ \E j \in DOMAIN analysis : j # i /\ analysis[j].pc = "read"]]

\* Request i runs from line 100 to its first await: to await
\* logo_file.read() when a logo is given, else to its return.
AnalyzeEnter(i) ==
    /\ analysis[i].pc = "start"
    /\ IF analysis[i].req.logo_file
       THEN /\ analysis' = Served(i, "read")
            /\ UNCHANGED response
       ELSE /\ analysis' = Served(i, "done")
            /\ response' = [response EXCEPT
                   ![i] = analyze_complete(analysis[i].req, hashseed)]
    /\ UNCHANGED <<convVars, classVars, mergeVars, luminances, extractVars,
                   heap, calls, variantVars>>

\* logo_file.read() of request i returns or raises, and the request runs to
\* its return.
AnalyzeResume(i) ==
    /\ analysis[i].pc = "read"
    /\ analysis' = Served(i, "done")
    /\ response' = [response EXCEPT
           ![i] = analyze_complete(analysis[i].req, hashseed)]
    /\ UNCHANGED <<convVars, classVars, mergeVars, luminances, extractVars,
                   heap, calls, variantVars>>

NextAnalyze == \E i \in DOMAIN analysis : AnalyzeEnter(i) \/ AnalyzeResume(i)

SpecAnalyze == InitAnalyze /\ [][NextAnalyze]_vars

(***************************************************************************)
(* Properties.                                                             *)
(***************************************************************************)
Range(s) == {s[i] : i \in 1..Len(s)}

NoDuplicates(s) == \A i, j \in 1..Len(s) : s[i] = s[j] => i = j

\* The ColorPalette invariant of the data model.
PaletteInvariant(p) ==
    /\ p.all_colors # <<>> =>
           {p.primary, p.secondary, p.accent} \subseteq Range(p.all_colors)
    /\ Range(p.neutrals) \subseteq Range(p.all_colors)

\* C1: when the two palettes handed to merge_palettes satisfy the
\* ColorPalette invariant, the palette it returns satisfies it too: its
\* primary, secondary and accent are in its all_colors when that list is not
\* empty, and its neutrals are in its all_colors.
MergeKeepsInvariant ==
    (/\ merged.status = "returned"
     /\ PaletteInvariant(palette1)
     /\ PaletteInvariant(palette2)) => PaletteInvariant(merged.value)

\* C2: the palette classify_colors returns has its primary, secondary and
\* accent in all_colors and every neutral in all_colors, for every sample list.
ClassifyKeepsInvariant ==
    palette.status = "returned" =>
        /\ {palette.value.primary, palette.value.secondary, palette.value.accent}
               \subseteq Range(palette.value.all_colors)
        /\ Range(palette.value.neutrals) \subseteq Range(palette.value.all_colors)

\* A list with a repeated sample and with vibrant and neutral samples, of
\* which three neutrals are kept, has been classified.
ClassifyInvariantWitness ==
    /\ palette.status = "returned"
    /\ Len(colors_rgb) = MaxSamples
    /\ ~NoDuplicates(colors_rgb)
    /\ Len(palette.value.neutrals) = 3
    /\ palette.value.primary # palette.value.secondary

\* C3: two calls of merge_palettes with the same two palettes return the same
\* palette, with the same order of neutrals and all_colors and the same
\* entries kept by the truncation.
MergeDeterministic ==
    [][(/\ merged.status = "returned"
        /\ merged'.status = "returned"
        /\ palette1' = palette1
        /\ palette2' = palette2) => merged' = merged]_vars

\* One leading '#' removed, if there is one.
StripOneHash(h) == IF h # <<>> /\ Head(h) = "#" THEN Tail(h) ELSE h

SixHexDigits(h) == Len(h) = 6 /\ \A i \in 1..6 : IsHexDigit(h[i])

\* C4: hex_to_rgb fails for every string that, after a leading '#' is
\* stripped, is not exactly 6 hexadecimal digits; it returns no triple for it.
HexToRgbRejectsMalformed ==
    (/\ rgb_out.status # "not_called"
     /\ rgb = <<>>
     /\ ~SixHexDigits(StripOneHash(hex_color))) => rgb_out.status # "returned"

\* C5: classify_colors of the empty list does not raise and returns the
\* fallback palette: primary #000000, secondary #FFFFFF, accent #CCCCCC,
\* neutrals [#F5F5F5, #333333], all_colors these five in that order.
EmptyGivesFallback ==
    (colors_rgb = <<>> /\ palette.status # "not_called") =>
        /\ palette.status = "returned"
        /\ palette.value.primary = <<"#","0","0","0","0","0","0">>
        /\ palette.value.secondary = <<"#","F","F","F","F","F","F">>
        /\ palette.value.accent = <<"#","C","C","C","C","C","C">>
        /\ palette.value.neutrals =
               << <<"#","F","5","F","5","F","5">>, <<"#","3","3","3","3","3","3">> >>
        /\ palette.value.all_colors =
               << palette.value.primary, palette.value.secondary,
                  palette.value.accent,
                  palette.value.neutrals[1], palette.value.neutrals[2] >>

\* The empty list has been classified.
EmptyClassifiedWitness ==
    colors_rgb = <<>> /\ palette.status = "returned" /\ Len(palette.value.all_colors) = 5

\* C6: merge_palettes returns the primary of the first palette as primary,
\* the primary of the second palette as secondary, and the accent of the
\* first palette as accent.
MergeRoles ==
    merged.status = "returned" =>
        /\ merged.value.primary = palette1.primary
        /\ merged.value.secondary = palette2.primary
        /\ merged.value.accent = palette1.accent

\* Two palettes whose roles all differ have been merged.
MergeRolesWitness ==
    /\ merged.status = "returned"
    /\ Cardinality({palette1.primary, palette1.secondary, palette1.accent,
                    palette2.primary, palette2.secondary, palette2.accent}) = 6

\* C8: merge_palettes raises nothing and returns a palette, also for two
\* fallback palettes and for palettes with empty neutrals or empty all_colors.
MergeNeverRaises ==
    merged.status # "not_called" =>
        /\ merged.status = "returned"
        /\ DOMAIN merged.value =
               {"primary", "secondary", "accent", "neutrals", "all_colors"}
        /\ Len(merged.value.neutrals) \in 0..4
        /\ Len(merged.value.all_colors) \in 0..12

\* Two palettes with empty neutrals and empty all_colors have been merged.
MergeEmptyWitness ==
    /\ merged.status = "returned"
    /\ palette1.all_colors = <<>> /\ palette1.neutrals = <<>>
    /\ palette2.all_colors = <<>> /\ palette2.neutrals = <<>>
    /\ merged.value.all_colors = <<>>

\* C9: hex_to_rgb(rgb_to_hex(c)) = c for every triple c of channels in 0..255.
RoundTripLaw ==
    (rgb # <<>> /\ rgb_out.status # "not_called") =>
        rgb_out.status = "returned" /\ rgb_out.value = rgb

\* A triple with a channel below 16 and a channel with hex letters has made
\* the round trip.
RoundTripWitness ==
    /\ rgb = <<10, 171, 255>>
    /\ hex_color = <<"#","0","A","A","B","F","F">>
    /\ rgb_out.status = "returned"

\* C10: is_neutral is true exactly when the largest and the smallest channel
\* differ by less than 30: by 29 it is neutral, by 30 or 31 it is not.
IsNeutralThreshold ==
    neutral.status = "returned" =>
        /\ neutral.value <=> \A i, j \in 1..3 : rgb[i] - rgb[j] < 30
        /\ (\E i, j \in 1..3 : rgb[i] - rgb[j] \in {30, 31}) => ~neutral.value

\* is_neutral has answered for a spread of 29, 30 or 31: here 30.
IsNeutralWitness ==
    /\ rgb = <<100, 100, 130>>
    /\ neutral.status = "returned"
    /\ neutral.value = FALSE

(***************************************************************************)
(* The classification stated on its own: the saturation proxy, the         *)
(* partition and the two orders, written without the definitions above.    *)
(***************************************************************************)
\* The largest difference between two channels.
Spread(c) ==
    LET diffs == {c[i] - c[j] : i, j \in 1..3}
    IN  CHOOSE d \in diffs : \A e \in diffs : e <= d

SpreadBelow30(c) == Spread(c) < 30
SpreadAtLeast30(c) == Spread(c) >= 30

\* The vibrant samples by descending spread, equal ones in input order.
RECURSIVE BySpreadDescending(_)
BySpreadDescending(l) ==
    IF l = <<>> THEN <<>>
    ELSE LET x == l[Len(l)]
             rest == BySpreadDescending(SubSeq(l, 1, Len(l) - 1))
             k == Cardinality({i \in 1..Len(rest) : Spread(rest[i]) >= Spread(x)})
         IN  SubSeq(rest, 1, k) \o <<x>> \o SubSeq(rest, k + 1, Len(rest))

\* The neutral samples by ascending luminance, equal ones in input order.
RECURSIVE ByLuminanceAscending(_)
ByLuminanceAscending(l) ==
    IF l = <<>> THEN <<>>
    ELSE LET x == l[Len(l)]
             rest == ByLuminanceAscending(SubSeq(l, 1, Len(l) - 1))
             k == Cardinality({i \in 1..Len(rest) :
                      calculate_luminance(rest[i]) <= calculate_luminance(x)})
         IN  SubSeq(rest, 1, k) \o <<x>> \o SubSeq(rest, k + 1, Len(rest))

SortedVibrant == BySpreadDescending(SelectSeq(colors_rgb, SpreadAtLeast30))
SortedNeutral == ByLuminanceAscending(SelectSeq(colors_rgb, SpreadBelow30))

Classified == palette.status = "returned" /\ colors_rgb # <<>>

\* C11: for a non-empty list, secondary is the second entry of the sorted
\* vibrant list if it has 2 entries; else the first entry of the sorted
\* neutral list if there is one; else the second sample of the list if it has
\* 2 samples; else the primary.
SecondaryChain ==
    Classified =>
        palette.value.secondary =
            IF Len(SortedVibrant) >= 2 THEN rgb_to_hex(SortedVibrant[2])
            ELSE IF SortedNeutral # <<>> THEN rgb_to_hex(SortedNeutral[1])
            ELSE IF Len(colors_rgb) >= 2 THEN rgb_to_hex(colors_rgb[2])
            ELSE palette.value.primary

\* One vibrant sample and several neutral ones, the darkest neither the first
\* neutral nor the second sample: secondary is the darkest neutral.
SecondaryChainWitness ==
    /\ Classified
    /\ Len(SortedVibrant) = 1
    /\ Len(SortedNeutral) >= 2
    /\ SelectSeq(colors_rgb, SpreadBelow30)[1] # SortedNeutral[1]
    /\ colors_rgb[2] # SortedNeutral[1]
    /\ palette.value.secondary = rgb_to_hex(SortedNeutral[1])

\* C12: for a non-empty list, primary is the first entry of the sorted vibrant
\* list when a sample is vibrant, and the first sample of the list otherwise.
PrimaryChoice ==
    Classified =>
        palette.value.primary =
            IF SortedVibrant # <<>> THEN rgb_to_hex(SortedVibrant[1])
            ELSE rgb_to_hex(colors_rgb[1])

\* Neutral samples only, the first one not the darkest: primary is the first.
PrimaryChoiceWitness ==
    /\ Classified
    /\ SortedVibrant = <<>>
    /\ colors_rgb[1] # SortedNeutral[1]
    /\ palette.value.primary = rgb_to_hex(colors_rgb[1])

\* C13: for a non-empty list, accent is the third entry of the sorted vibrant
\* list if it has 3 entries; else its second entry if it has 2; else the
\* primary, and not the neutral taken as secondary.
AccentChain ==
    Classified =>
        /\ palette.value.accent =
               IF Len(SortedVibrant) >= 3 THEN rgb_to_hex(SortedVibrant[3])
               ELSE IF Len(SortedVibrant) >= 2 THEN rgb_to_hex(SortedVibrant[2])
               ELSE palette.value.primary
        /\ (Len(SortedVibrant) = 1 /\ SortedNeutral # <<>>) =>
               palette.value.accent # palette.value.secondary

\* One vibrant sample and a neutral one: accent is the primary while
\* secondary is the neutral.
AccentChainWitness ==
    /\ Classified
    /\ Len(SortedVibrant) = 1
    /\ SortedNeutral # <<>>
    /\ palette.value.accent = palette.value.primary
    /\ palette.value.secondary = rgb_to_hex(SortedNeutral[1])

\* C14: for a non-empty list with k neutral samples, neutrals are the first
\* min(3, k) entries of the neutral samples by ascending luminance, as hex,
\* duplicates kept.
NeutralsDarkest ==
    Classified =>
        /\ Len(palette.value.neutrals) = Min2(3, Len(SortedNeutral))
        /\ \A i \in 1..Len(palette.value.neutrals) :
               palette.value.neutrals[i] = rgb_to_hex(SortedNeutral[i])
        /\ \A i \in 1..(Len(palette.value.neutrals) - 1) :
               calculate_luminance(SortedNeutral[i])
                   <= calculate_luminance(SortedNeutral[i + 1])

\* Four neutral samples, two of them equal, not in order of luminance: three
\* are kept, the repeated one twice.
NeutralsDarkestWitness ==
    /\ Classified
    /\ Len(SortedNeutral) = 4
    /\ Len(palette.value.neutrals) = 3
    /\ ~NoDuplicates(palette.value.neutrals)
    /\ palette.value.neutrals[1] # rgb_to_hex(colors_rgb[1])

\* C15: for a non-empty list, all_colors has the length of the list and its
\* i-th element is the hex of the i-th sample: input order, duplicates kept.
AllColorsInOrder ==
    Classified =>
        /\ Len(palette.value.all_colors) = Len(colors_rgb)
        /\ \A i \in 1..Len(colors_rgb) :
               palette.value.all_colors[i] = rgb_to_hex(colors_rgb[i])
        /\ colors_rgb = << <<10, 10, 10>>, <<255, 0, 0>>, <<10, 10, 10>> >> =>
               palette.value.all_colors =
                   << <<"#","0","A","0","A","0","A">>, <<"#","F","F","0","0","0","0">>,
                      <<"#","0","A","0","A","0","A">> >>

\* A list that starts with a neutral sample, repeats it and has a vibrant
\* sample behind it has been classified.
AllColorsInOrderWitness ==
    /\ Classified
    /\ colors_rgb = << <<10, 10, 10>>, <<255, 0, 0>>, <<10, 10, 10>> >>
    /\ palette.value.primary = palette.value.all_colors[2]

\* The vibrant sample among the positions cand that ranks first: the largest
\* spread, and the earliest position among equal spreads.
FirstRanked(l, cand) ==
    CHOOSE i \in cand : \A j \in cand :
        Spread(l[j]) < Spread(l[i]) \/ (Spread(l[j]) = Spread(l[i]) /\ i <= j)

\* C16: the vibrant samples rank by descending saturation proxy, and of two
\* with equal proxy the earlier one in the list ranks higher: primary is the
\* first ranked, secondary the second and accent the third.
StableVibrantRoles ==
    Classified =>
        LET V == {i \in 1..Len(colors_rgb) : Spread(colors_rgb[i]) >= 30}
            i1 == FirstRanked(colors_rgb, V)
            i2 == FirstRanked(colors_rgb, V \ {i1})
            i3 == FirstRanked(colors_rgb, V \ {i1, i2})
        IN  /\ V # {} => palette.value.primary = rgb_to_hex(colors_rgb[i1])
            /\ Cardinality(V) >= 2 => palette.value.secondary = rgb_to_hex(colors_rgb[i2])
            /\ Cardinality(V) >= 3 => palette.value.accent = rgb_to_hex(colors_rgb[i3])

\* Two different vibrant samples of equal spread: the earlier one is primary,
\* the later one secondary.
StableVibrantWitness ==
    /\ Classified
    /\ \E i, j \in 1..Len(colors_rgb) :
           /\ i < j
           /\ colors_rgb[i] # colors_rgb[j]
           /\ Spread(colors_rgb[i]) = Spread(colors_rgb[j])
           /\ Spread(colors_rgb[i]) >= 30
           /\ palette.value.primary = rgb_to_hex(colors_rgb[i])
           /\ palette.value.secondary = rgb_to_hex(colors_rgb[j])
           /\ colors_rgb[i] = <<0, 0, 255>>

\* C17: for a list of one sample, vibrant or neutral, primary, secondary and
\* accent are all the hex of that sample; [(10,10,10)] gives #0A0A0A.
SingleSampleCollapse ==
    (palette.status # "not_called" /\ Len(colors_rgb) = 1) =>
        /\ palette.status = "returned"
        /\ palette.value.primary = rgb_to_hex(colors_rgb[1])
        /\ palette.value.secondary = palette.value.primary
        /\ palette.value.accent = palette.value.primary
        /\ colors_rgb = << <<10, 10, 10>> >> =>
               palette.value.primary = <<"#","0","A","0","A","0","A">>

\* The list [(10,10,10)] has been classified.
SingleSampleWitness ==
    /\ colors_rgb = << <<10, 10, 10>> >>
    /\ palette.status = "returned"
    /\ palette.value.accent = <<"#","0","A","0","A","0","A">>

\* C18: for a non-empty list of neutral samples only, classify_colors does
\* not raise, and primary, secondary and accent are each the hex of one of
\* the neutral samples.
AllNeutralRoles ==
    (/\ palette.status # "not_called"
     /\ colors_rgb # <<>>
     /\ \A i \in 1..Len(colors_rgb) : Spread(colors_rgb[i]) < 30) =>
        /\ palette.status = "returned"
        /\ {palette.value.primary, palette.value.secondary, palette.value.accent}
               \subseteq {rgb_to_hex(colors_rgb[i]) : i \in 1..Len(colors_rgb)}

\* Three neutral samples, the first not the darkest, have been classified.
AllNeutralWitness ==
    /\ Classified
    /\ Len(colors_rgb) >= 3
    /\ \A i \in 1..Len(colors_rgb) : Spread(colors_rgb[i]) < 30
    /\ palette.value.primary # palette.value.secondary

\* C19: for five samples of which one has saturation 50, one saturation 30,
\* one saturation 10 and the other two a saturation below 30, in any order,
\* primary is the sample of saturation 50 and secondary the one of
\* saturation 30.
PartitionRoles ==
    (/\ palette.status # "not_called"
     /\ Len(colors_rgb) = 5
     /\ Cardinality({i \in 1..5 : Spread(colors_rgb[i]) = 50}) = 1
     /\ Cardinality({i \in 1..5 : Spread(colors_rgb[i]) = 30}) = 1
     /\ \E i \in 1..5 : Spread(colors_rgb[i]) = 10
     /\ \A i \in 1..5 : Spread(colors_rgb[i]) \in {50, 30} \/ Spread(colors_rgb[i]) < 30) =>
        /\ palette.status = "returned"
        /\ \E i, j \in 1..5 :
               /\ Spread(colors_rgb[i]) = 50
               /\ Spread(colors_rgb[j]) = 30
               /\ palette.value.primary = rgb_to_hex(colors_rgb[i])
               /\ palette.value.secondary = rgb_to_hex(colors_rgb[j])

\* A list with a neutral sample first and the sample of saturation 30 ahead
\* of the one of saturation 50 has been classified.
PartitionWitness ==
    /\ palette.status = "returned"
    /\ Len(colors_rgb) = 5
    /\ Spread(colors_rgb[1]) = 10
    /\ \E i, j \in 1..5 :
           i < j /\ Spread(colors_rgb[i]) = 30 /\ Spread(colors_rgb[j]) = 50

(***************************************************************************)
(* The extraction pipeline.                                                *)
(***************************************************************************)
Extracted == extraction.status # "not_called"

\* C21: extract_colors_from_image returns no palette built from fewer
\* colours than the quantizer was asked for because a step failed: when
\* get_palette fails, the call does not return a palette.
NoSilentDegradedPalette ==
    (Extracted /\ image_source.get_palette # "ok"
        /\ "get_palette" \in Range(extraction.steps)) =>
        extraction.status # "returned"

\* C22: when the bytes are no image, extract_colors_from_image fails with
\* the failure of the decoder itself, not with another error.
DecoderFailureUnchanged ==
    (Extracted /\ image_source.open # "ok"
        /\ "Image.open" \in Range(extraction.steps)) =>
        extraction.status = image_source.open

\* C23: for a URL, extract_colors_from_image sends one HTTP request per
\* call; when the request fails or answers with an error status, that
\* failure is the outcome of the call, nothing is decoded or classified and
\* no palette is returned.
FetchOnceNoRetry ==
    (Extracted /\ image_source.kind = "url") =>
        /\ extraction.fetches = 1
        /\ Cardinality({i \in 1..Len(extraction.steps) :
                            extraction.steps[i] = "requests.get"}) = 1
        /\ image_source.get # "ok" =>
               /\ extraction.status = image_source.get
               /\ extraction.steps = <<"requests.get">>
               /\ extraction.value = <<>>
        /\ (image_source.get = "ok" /\ image_source.raise_for_status # "ok") =>
               /\ extraction.status = image_source.raise_for_status
               /\ extraction.steps = <<"requests.get", "raise_for_status">>
               /\ extraction.value = <<>>

\* The request for a URL failed with a network error and the call ended.
FetchFailedWitness ==
    /\ Extracted
    /\ image_source.kind = "url"
    /\ image_source.get = "ConnectionError"
    /\ extraction.status = "ConnectionError"
    /\ extraction.fetches = 1

(***************************************************************************)
(* The form of a hex colour and the range of the luminance.                *)
(***************************************************************************)
\* The value of an uppercase hexadecimal digit, and -1 for any other
\* character.
UpperHexValue(ch) ==
    CASE ch = "0" -> 0 [] ch = "1" -> 1 [] ch = "2" -> 2 [] ch = "3" -> 3
      [] ch = "4" -> 4 [] ch = "5" -> 5 [] ch = "6" -> 6 [] ch = "7" -> 7
      [] ch = "8" -> 8 [] ch = "9" -> 9 [] ch = "A" -> 10 [] ch = "B" -> 11
      [] ch = "C" -> 12 [] ch = "D" -> 13 [] ch = "E" -> 14 [] ch = "F" -> 15
      [] OTHER -> -1

\* h is '#' and six uppercase hexadecimal digits.
WellFormedHex(h) ==
    /\ Len(h) = 7
    /\ h[1] = "#"
    /\ \A i \in 2..7 : UpperHexValue(h[i]) >= 0

\* C24: for channels in 0..255, rgb_to_hex returns 7 characters: '#' and six
\* uppercase hexadecimal digits, two per channel in the order r, g, b, with
\* a leading zero below 16.
RgbToHexForm ==
    (hex_out.status = "returned" /\ \A k \in 1..3 : rgb[k] \in 0..255) =>
        /\ WellFormedHex(hex_out.value)
        /\ \A k \in 1..3 :
               16 * UpperHexValue(hex_out.value[2 * k])
                   + UpperHexValue(hex_out.value[2 * k + 1]) = rgb[k]

\* A colour with a channel below 16 and channels with letters as digits has
\* been converted.
RgbToHexFormWitness ==
    /\ rgb = <<9, 171, 255>>
    /\ hex_out.status = "returned"
    /\ hex_out.value = <<"#", "0", "9", "A", "B", "F", "F">>

\* Every colour of a palette classified from a non-empty list has the form
\* of C24.
PaletteEntriesWellFormed ==
    (palette.status = "returned" /\ colors_rgb # <<>>) =>
        /\ WellFormedHex(palette.value.primary)
        /\ WellFormedHex(palette.value.secondary)
        /\ WellFormedHex(palette.value.accent)
        /\ \A i \in 1..Len(palette.value.neutrals) :
               WellFormedHex(palette.value.neutrals[i])
        /\ \A i \in 1..Len(palette.value.all_colors) :
               WellFormedHex(palette.value.all_colors[i])

\* The luminance 1 in the unit of calculate_luminance.
LuminanceOne == 255 * 10000

IsGray(c) == c[1] = c[2] /\ c[2] = c[3]

\* C25: the luminance of a colour with channels in 0..255 is within [0, 1],
\* 0 for (0,0,0) and 1 for (255,255,255), and of two grays the one with the
\* larger channel value has the strictly larger luminance.
LuminanceRange ==
    /\ \A i \in 1..Len(luminances) :
           /\ luminances[i].value >= 0
           /\ luminances[i].value <= LuminanceOne
           /\ luminances[i].rgb = <<0, 0, 0>> => luminances[i].value = 0
           /\ luminances[i].rgb = <<255, 255, 255>> =>
                  luminances[i].value = LuminanceOne
    /\ \A i, j \in 1..Len(luminances) :
           (/\ IsGray(luminances[i].rgb)
            /\ IsGray(luminances[j].rgb)
            /\ luminances[i].rgb[1] < luminances[j].rgb[1]) =>
               luminances[i].value < luminances[j].value

\* The luminance of white and of a gray next to it have been calculated.
LuminanceRangeWitness ==
    /\ Len(luminances) = 2
    /\ luminances[1].rgb = <<255, 255, 255>>
    /\ luminances[2].rgb = <<239, 239, 239>>
    /\ luminances[2].value < luminances[1].value

(***************************************************************************)
(* Arguments and results of calls in progress together.                    *)
(***************************************************************************)
\* The identities of the lists that are arguments of a call, or fields of a
\* palette that is one.
ArgumentLists ==
    UNION {IF calls[k].op = "classify_colors" THEN {calls[k].colors_rgb}
           ELSE {calls[k].palette1.neutrals, calls[k].palette1.all_colors,
                 calls[k].palette2.neutrals, calls[k].palette2.all_colors} :
           k \in DOMAIN calls}

\* C26: at any statement of classify_colors(samples) and after it, the list
\* samples holds what it held at the call; at any statement of
\* merge_palettes(a, b) and after it, every field of a and of b holds what
\* it held at the call; the lists of a returned palette are not a list of
\* any argument.
ArgumentsNotMutated ==
    \A k \in DOMAIN calls :
        /\ calls[k].op = "classify_colors" =>
               heap[calls[k].colors_rgb] = calls[k].input[1]
        /\ calls[k].op = "merge_palettes" =>
               /\ PaletteValue(heap, calls[k].palette1) = calls[k].input[1]
               /\ PaletteValue(heap, calls[k].palette2) = calls[k].input[2]
        /\ calls[k].pc = "done" =>
               /\ calls[k].result.neutrals \notin ArgumentLists
               /\ calls[k].result.all_colors \notin ArgumentLists
               /\ calls[k].result.neutrals # calls[k].result.all_colors

\* classify_colors has returned for the list of four samples that is sorted
\* neither way, and merge_palettes has returned too.
ArgumentsWitness ==
    /\ calls # <<>>
    /\ \E k, j \in DOMAIN calls :
           /\ calls[k].op = "classify_colors"
           /\ calls[k].pc = "done"
           /\ Len(calls[k].input[1]) = 4
           /\ Len(heap[calls[k].result.neutrals]) = 2
           /\ calls[j].op = "merge_palettes"
           /\ calls[j].pc = "done"
           /\ heap[calls[j].result.all_colors] # <<>>

\* C27: whatever the order in which the statements of several calls run,
\* the palette a call returns is the palette of that call made alone on what
\* its arguments held.
CallsIsolated ==
    \A k \in DOMAIN calls :
        calls[k].pc = "done" =>
            PaletteValue(heap, calls[k].result) =
                IF calls[k].op = "classify_colors"
                THEN classify_colors(calls[k].input[1]).value
                ELSE merge_palettes(calls[k].input[1], calls[k].input[2],
                                    hashseed).value

\* A call of classify_colors on the list of four samples and a call of
\* merge_palettes have returned after their statements ran in turns, in a
\* process whose sets are not in the order of the lists they are made of.
CallsIsolatedWitness ==
    /\ calls # <<>>
    /\ \E k, j \in DOMAIN calls :
           /\ calls[k].pc = "done" /\ calls[j].pc = "done"
           /\ calls[k].overlapped /\ calls[j].overlapped
           /\ calls[k].op = "classify_colors"
           /\ Len(calls[k].input[1]) = 4
           /\ calls[j].op = "merge_palettes"
           /\ calls[j].input[1] # calls[j].input[2]
           /\ heap[calls[j].result.all_colors] #
                  Distinct(calls[j].input[1].all_colors \o calls[j].input[2].all_colors)
           /\ heap[calls[j].result.neutrals] #
                  Distinct(calls[j].input[1].neutrals \o calls[j].input[2].neutrals)

\* C28: when the vibrant list of classify_colors has fewer than 2 entries
\* and its neutral list is empty, the list has one sample, so that the
\* second sample of the list is never taken as secondary: secondary is the
\* primary then.
SecondSampleUnreachable ==
    (/\ Classified
     /\ Len(vibrant_colors(colors_rgb)) < 2
     /\ neutral_colors(colors_rgb) = <<>>) =>
        /\ Len(colors_rgb) = 1
        /\ palette.value.secondary = palette.value.primary

\* A list of one vibrant sample has been classified: the chain went past the
\* test of the neutral list.
SecondSampleWitness ==
    /\ Classified
    /\ colors_rgb = << <<255, 0, 0>> >>
    /\ neutral_colors(colors_rgb) = <<>>
    /\ palette.value.secondary = <<"#", "F", "F", "0", "0", "0", "0">>

\* C29: merge_palettes(a, b) and merge_palettes(a', b'), where a' and b' are
\* a and b with other values in a.secondary, b.secondary and b.accent,
\* return the same primary, secondary and accent and the same sets of
\* neutrals and of all_colors, whichever of the two calls is made first.
MergeIgnoresThreeFields ==
    (merged.status = "returned" /\ merged_variant.status = "returned") =>
        /\ merged_variant.value.primary = merged.value.primary
        /\ merged_variant.value.secondary = merged.value.secondary
        /\ merged_variant.value.accent = merged.value.accent
        /\ Range(merged_variant.value.neutrals) = Range(merged.value.neutrals)
        /\ Range(merged_variant.value.all_colors) = Range(merged.value.all_colors)

\* Both calls have returned, the three fields having other values in the
\* second one, for two palettes whose merged neutrals are cut to 4 and leave
\* out the first neutral of the first palette.
MergeVariantWitness ==
    /\ merged.status = "returned"
    /\ merged_variant.status = "returned"
    /\ variant # <<>>
    /\ VariantPalette1(palette1, variant).secondary # palette1.secondary
    /\ VariantPalette2(palette2, variant).secondary # palette2.secondary
    /\ VariantPalette2(palette2, variant).accent # palette2.accent
    /\ Cardinality(Range(palette1.neutrals) \cup Range(palette2.neutrals)) > 4
    /\ Len(merged.value.neutrals) = 4
    /\ palette1.neutrals[1] \notin Range(merged.value.neutrals)

(***************************************************************************)
(* The endpoint analyze_complete.                                          *)
(***************************************************************************)
\* The palette of the logo, when a logo was given, read and extracted.
LogoPalette(req) ==
    IF req.logo_file /\ req.read = "ok"
       /\ extract_colors_from_image(req.logo).status = "returned"
    THEN <<extract_colors_from_image(req.logo).value>>
    ELSE <<>>

\* The palette of the first image of the website, when the page was scraped
\* and analysed, lists an image and the image was extracted.
WebsitePalette(req) ==
    IF req.website_url /\ req.scrape = "ok" /\ req.ai = "ok"
       /\ req.images
       /\ extract_colors_from_image(req.image).status = "returned"
    THEN <<extract_colors_from_image(req.image).value>>
    ELSE <<>>

\* The colors of the response to request i are those of the precedence rule.
ColorsByPrecedence(i) ==
    LET req == analysis[i].req
        logo == LogoPalette(req)
        website == WebsitePalette(req)
    IN  /\ response[i].status = "returned"
        /\ response[i].value.brand_dna_colors.present
        /\ response[i].value.brand_dna_colors.value =
               IF logo # <<>> /\ website # <<>>
               THEN merge_palettes(logo[1], website[1], hashseed).value
               ELSE IF logo # <<>> THEN logo[1]
               ELSE IF website # <<>> THEN website[1]
               ELSE ColorPalette(<<"#","0","0","0","0","0","0">>,
                                 <<"#","F","F","F","F","F","F">>,
                                 <<"#","4","A","9","0","E","2">>,
                                 << <<"#","F","5","F","5","F","5">>,
                                    <<"#","3","3","3","3","3","3">> >>,
                                 << <<"#","0","0","0","0","0","0">>,
                                    <<"#","F","F","F","F","F","F">>,
                                    <<"#","4","A","9","0","E","2">>,
                                    <<"#","F","5","F","5","F","5">>,
                                    <<"#","3","3","3","3","3","3">> >>)

\* C30: analyze_complete returns, whatever fails on its way and whatever
\* other request runs while it is suspended, a Brand DNA whose colors are:
\* the merge of the logo palette and the website palette, in this order,
\* when both were extracted; the one that was extracted when only one was;
\* else the default palette #000000 / #FFFFFF / #4A90E2.
AnalyzeAlwaysHasColors ==
    \A i \in DOMAIN analysis :
        /\ analysis[i].pc = "done" <=> response[i].status # "not_called"
        /\ response[i].status # "not_called" => ColorsByPrecedence(i)

\* Both palettes were extracted and merged, each of the two requests having
\* run while the other one was suspended at the read of its logo: primary
\* is the one of the logo, secondary the primary of the website.
AnalyzeMergedWitness ==
    /\ analysis # <<>>
    /\ response[1].status = "returned"
    /\ response[2].status = "returned"
    /\ analysis[1].overlapped /\ analysis[2].overlapped
    /\ LogoPalette(analysis[1].req) # <<>>
    /\ WebsitePalette(analysis[1].req) # <<>>
    /\ response[1].value.brand_dna_colors.value.primary =
           LogoPalette(analysis[1].req)[1].primary
    /\ response[1].value.brand_dna_colors.value.secondary =
           WebsitePalette(analysis[1].req)[1].primary
    /\ LogoPalette(analysis[1].req)[1].primary #
           WebsitePalette(analysis[1].req)[1].primary

====
